---- MODULE Spec2Model ----
(***************************************************************************)
(* A model of the OpenMind web application (Django): the request handlers  *)
(* of web_application/views.py over the tables of                          *)
(* web_application/models.py.                                              *)
(*                                                                         *)
(* Every request is served by its own worker; settings.py sets neither     *)
(* ATOMIC_REQUESTS nor any transaction.atomic block, so every ORM call     *)
(* commits on its own (autocommit).  A handler is therefore a sequence of  *)
(* steps, one per database statement, and the steps of different requests  *)
(* interleave.  Reads of the clock (timezone.now()) are merged into the    *)
(* neighbouring database step only where the two commute.                  *)
(***************************************************************************)
EXTENDS Integers, Sequences, FiniteSets, Bags, TLC

(***************************************************************************)
(* Bounds of the model.                                                    *)
(***************************************************************************)
MaxDay == 2
MaxSends == 2
MaxViews == 1
MaxUsers == 3
MaxFaults == 2

Clients == {"c1", "c2"}

\* The ids of the ChatSession rows that get created, and an id no row gets.
SessionIds == {1}
UnknownSession == Cardinality(SessionIds) + 1

\* The anonymous requester (request.user.is_authenticated = False).
Anonymous == 0

\* Python's None / SQL NULL for a nullable column.
None == 0 - 1

VARIABLES
    clock,          \* timezone.now().date(), as a day number
    users,          \* table users: a sequence of rows, the row's index is its id
    userProfiles,   \* table user_profiles
    userStreaks,    \* table user_streaks
    moodEntries,    \* table mood_entries: a bag of rows
    chatSessions,   \* table chat_sessions: the row's index is its id
    chatMessages,   \* table chat_messages, in creation order
    crisisAlerts,   \* table crisis_alerts, in creation order
    resources,      \* table resources: the row's index is its id
    auth,           \* per client: the user of its authenticated session
    pc,             \* per client: where its request in flight stands
    req,            \* per client: the request being served (or served last)
    resp,           \* per client: the last response
    loc,            \* per client: the handler's local variables
    faults,         \* database errors injected so far
    environ         \* os.environ['POINTS_PER_MOOD_ENTRY'] when the process started

vars == <<clock, users, userProfiles, userStreaks, moodEntries, chatSessions,
          chatMessages, crisisAlerts, resources, auth, pc, req, resp, loc, faults,
          environ>>


(***************************************************************************)
(* Settings read from the environment when the process starts.             *)
(***************************************************************************)
\* os.environ without the variable.
Unset == <<"unset">>

Digits == <<"0", "1", "2", "3", "4", "5", "6", "7", "8", "9">>

\* int(s) for a string of decimal digits.
RECURSIVE ParseInt(_)
ParseInt(s) ==
    IF s = <<>> THEN 0
    ELSE 10 * ParseInt(SubSeq(s, 1, Len(s) - 1))
         + (CHOOSE d \in 0..9 : Digits[d + 1] = s[Len(s)])

\* POINTS_PER_MOOD_ENTRY = int(os.environ.get('POINTS_PER_MOOD_ENTRY', '10'))
POINTS_PER_MOOD_ENTRY ==
    ParseInt(IF environ = Unset THEN <<"1", "0">> ELSE environ)

\* The environments tried: the variable unset, and set to 20.
Environments == {Unset, <<"2", "0">>}

(***************************************************************************)
(* Requests, responses and handler locals.                                 *)
(***************************************************************************)
NoReq ==
    [view |-> "none", mood_score |-> 0, other_valid |-> TRUE, session_id |-> 0,
     message |-> <<>>, username |-> "", email |-> "", password |-> "",
     confirm_password |-> "", resource_id |-> 0, malformed |-> FALSE,
     action |-> "none", selected |-> {}]

NoResp == [status |-> 0, page |-> "none", form_errors |-> FALSE, data |-> <<>>]

NoUser ==
    [username |-> "", email |-> "", password |-> "",
     is_active |-> TRUE, account_suspended |-> FALSE, last_active |-> None,
     is_staff |-> FALSE]

UserRow(name, mail) ==
    [NoUser EXCEPT !.username = name, !.email = mail, !.password = "pw"]

TwoUsers == <<UserRow("ann", "ann@x"), UserRow("bob", "bob@x")>>

NoStreak ==
    [id |-> 0, user |-> 0, current_mood_streak |-> 0, longest_mood_streak |-> 0,
     last_mood_entry |-> None, total_points |-> 0]

NoSession ==
    [id |-> 0, user |-> 0, status |-> "active", ended_at |-> None,
     total_messages |-> 0, crisis_detected |-> FALSE, crisis_severity |-> None]

NoResource == [id |-> 0, is_published |-> FALSE, view_count |-> 0]

\* The handler's locals; `alerts` is history only: the ids of the CrisisAlert
\* rows the request has created (the code keeps no reference to them).
NoLocals ==
    [entry_date |-> None, streak |-> NoStreak, session |-> NoSession,
     user_message |-> <<>>, user_msg |-> 0, bot_msg |-> 0,
     contains_crisis |-> FALSE, user |-> 0, resource |-> NoResource,
     alerts |-> <<>>, user_row |-> NoUser]

Render(page, errors) ==
    [status |-> 200, page |-> page, form_errors |-> errors, data |-> <<>>]

Redirect(to) ==
    [status |-> 302, page |-> to, form_errors |-> FALSE, data |-> <<>>]

\* get_object_or_404 raising Http404 out of a view: Django's 404 response.
NotFound == [status |-> 404, page |-> "404", form_errors |-> FALSE, data |-> <<>>]

\* An exception no view code catches: Django's 500 response.
ServerError(what) ==
    [status |-> 500, page |-> what, form_errors |-> FALSE, data |-> <<>>]

\* @login_required on an unauthenticated request: redirect to the login page.
LoginRequired == Redirect("login")

Finish(c, response) ==
    /\ pc' = [pc EXCEPT ![c] = "idle"]
    /\ resp' = [resp EXCEPT ![c] = response]
    /\ loc' = [loc EXCEPT ![c] = NoLocals]

Goto(c, label, locals) ==
    /\ pc' = [pc EXCEPT ![c] = label]
    /\ loc' = [loc EXCEPT ![c] = locals]
    /\ UNCHANGED resp

Arrive(c, label, request) ==
    /\ pc[c] = "idle"
    /\ pc' = [pc EXCEPT ![c] = label]
    /\ req' = [req EXCEPT ![c] = request]
    /\ resp' = [resp EXCEPT ![c] = NoResp]
    /\ loc' = [loc EXCEPT ![c] = NoLocals]

Range(s) == {s[i] : i \in DOMAIN s}

(***************************************************************************)
(* Mood tracking: MoodEntry, UserStreak, mood_tracker_view.                *)
(***************************************************************************)

\* MinValueValidator(1), MaxValueValidator(10) on MoodEntry.mood_score.
MoodScoreValidAnyInteger(score) == TRUE

MoodScoreValid(score) == score >= 1 /\ score <= 10

\* MoodEntryForm.is_valid(): the field validators of the ModelForm.  user and
\* entry_date are no form fields, so unique_together is not validated here.
MoodEntryForm_is_valid(r) == MoodScoreValid(r.mood_score) /\ r.other_valid

MoodRow(user, date, score) ==
    [user |-> user, entry_date |-> date, mood_score |-> score]

HasMoodEntry(user, date) ==
    \E row \in BagToSet(moodEntries) : row.user = user /\ row.entry_date = date

\* unique_together = ['user', 'entry_date'] as the database enforces it on INSERT.
MoodUniqueNotEnforced(user, date) == FALSE

MoodUniqueViolated(user, date) == HasMoodEntry(user, date)

StreakRowsOf(user) == {i \in DOMAIN userStreaks : userStreaks[i].user = user}

\* The UserStreak row of a user who has one.
StreakOf(user) ==
    LET found == StreakRowsOf(user)
    IN  userStreaks[CHOOSE i \in found : \A j \in found : i <= j]

\* OneToOneField(User): the unique constraint on user_streaks.user_id.
StreakUniqueViolated(user) == StreakRowsOf(user) # {}

NewStreak(user) ==
    [NoStreak EXCEPT !.id = Len(userStreaks) + 1, !.user = user]

\* The streak arithmetic of mood_tracker_view, on the in-memory object, for
\* the date `today` the comparison reads from the clock.
StreakUpdate(streak, today) ==
    IF streak.last_mood_entry = today - 1
    THEN [streak EXCEPT !.current_mood_streak = @ + 1,
                        !.longest_mood_streak =
                            IF streak.current_mood_streak + 1 > @
                            THEN streak.current_mood_streak + 1 ELSE @]
    ELSE [streak EXCEPT !.current_mood_streak = 1]

\* The POST data tried: the scores around both validators' limits with the
\* other fields valid, and a valid score with another field invalid.
MoodPosts == {<<0, TRUE>>, <<1, TRUE>>, <<10, TRUE>>, <<11, TRUE>>, <<10, FALSE>>}

\* A POST to /mood/ arrives.
MoodTrackerPost(c) ==
    \E post \in MoodPosts :
        /\ Arrive(c, "mood_form",
                  [NoReq EXCEPT !.view = "mood_tracker", !.mood_score = post[1],
                                !.other_valid = post[2]])
        /\ UNCHANGED <<environ, clock, users, userProfiles, userStreaks, moodEntries,
                       chatSessions, chatMessages, crisisAlerts, resources,
                       auth, faults>>

\* @login_required, form.is_valid(), entry_date = now().date(), mood_entry.save().
MoodEntrySave(c) ==
    /\ pc[c] = "mood_form"
    /\ IF auth[c] = Anonymous
       THEN /\ Finish(c, LoginRequired)
            /\ UNCHANGED moodEntries
       ELSE IF ~MoodEntryForm_is_valid(req[c])
       THEN /\ Finish(c, Render("mood/tracker.html", TRUE))
            /\ UNCHANGED moodEntries
       ELSE IF MoodUniqueViolated(auth[c], clock)
       THEN /\ Finish(c, ServerError("IntegrityError"))
            /\ UNCHANGED moodEntries
       ELSE /\ moodEntries' =
                   moodEntries (+) SetToBag({MoodRow(auth[c], clock, req[c].mood_score)})
            /\ Goto(c, "mood_streak",
                    [loc[c] EXCEPT !.entry_date = clock, !.user = auth[c]])
    /\ UNCHANGED <<environ, clock, users, userProfiles, userStreaks, chatSessions,
                   chatMessages, crisisAlerts, resources, auth, req, faults>>

\* UserStreak.objects.get_or_create(user=request.user)[0]: the SELECT; when
\* it finds the row, the comparison with now().date() - timedelta(days=1)
\* on the loaded object follows.
StreakGetOrCreate(c) ==
    /\ pc[c] = "mood_streak"
    /\ LET user == loc[c].user
       IN  IF StreakRowsOf(user) # {}
           THEN Goto(c, "mood_points",
                     [loc[c] EXCEPT !.streak = StreakUpdate(StreakOf(user), clock)])
           ELSE Goto(c, "mood_streak_create", loc[c])
    /\ UNCHANGED <<environ, clock, users, userProfiles, userStreaks, moodEntries, chatSessions,
                   chatMessages, crisisAlerts, resources, auth, req, faults>>

\* get_or_create after DoesNotExist: the INSERT, and on IntegrityError (a
\* concurrent request created the row) the SELECT again; then the comparison.
StreakCreate(c) ==
    /\ pc[c] = "mood_streak_create"
    /\ LET user == loc[c].user
           row == IF StreakUniqueViolated(user) THEN StreakOf(user) ELSE NewStreak(user)
       IN  /\ userStreaks' = IF StreakUniqueViolated(user) THEN userStreaks
                             ELSE Append(userStreaks, row)
           /\ Goto(c, "mood_points",
                   [loc[c] EXCEPT !.streak = StreakUpdate(row, clock)])
    /\ UNCHANGED <<environ, clock, users, userProfiles, moodEntries, chatSessions,
                   chatMessages, crisisAlerts, resources, auth, req, faults>>

\* last_mood_entry = now().date(); total_points += 10; streak.save().
StreakSave(c) ==
    /\ pc[c] = "mood_points"
    /\ LET streak == [loc[c].streak EXCEPT !.last_mood_entry = clock,
                                           !.total_points = @ + 10]
       IN  userStreaks' = [userStreaks EXCEPT ![streak.id] = streak]
    /\ Finish(c, Redirect("mood_tracker"))
    /\ UNCHANGED <<environ, clock, users, userProfiles, moodEntries, chatSessions,
                   chatMessages, crisisAlerts, resources, auth, req, faults>>

\* Midnight passes.
Tick ==
    /\ clock < MaxDay
    /\ clock' = clock + 1
    /\ UNCHANGED <<environ, users, userProfiles, userStreaks, moodEntries, chatSessions,
                   chatMessages, crisisAlerts, resources, auth, pc, req, resp,
                   loc, faults>>

(***************************************************************************)
(* The mood tracker's specification: two registered users, one of them     *)
(* with the UserStreak register_view created and one without (an account   *)
(* made outside register_view), served by two concurrent workers.          *)
(***************************************************************************)
InitIdle ==
    /\ pc = [c \in Clients |-> "idle"]
    /\ req = [c \in Clients |-> NoReq]
    /\ resp = [c \in Clients |-> NoResp]
    /\ loc = [c \in Clients |-> NoLocals]
    /\ faults = 0

MoodTables ==
    /\ clock = 1
    /\ users = TwoUsers
    /\ userProfiles = <<[user |-> 1], [user |-> 2]>>
    /\ userStreaks = <<[NoStreak EXCEPT !.id = 1, !.user = 1]>>
    /\ moodEntries = EmptyBag
    /\ chatSessions = <<>>
    /\ chatMessages = <<>>
    /\ crisisAlerts = <<>>
    /\ resources = <<>>
    /\ auth \in {[c \in Clients |-> IF c = "c1" THEN 1 ELSE u] : u \in {Anonymous, 1, 2}}
    /\ InitIdle

MoodInit == MoodTables /\ environ = Unset

MoodNext ==
    \/ Tick
    \/ \E c \in Clients :
        \/ MoodTrackerPost(c)
        \/ MoodEntrySave(c)
        \/ StreakGetOrCreate(c)
        \/ StreakCreate(c)
        \/ StreakSave(c)

MoodSpec == MoodInit /\ [][MoodNext]_vars

\* The mood tracker in a process started with or without the variable.
PointsInit == MoodTables /\ environ \in Environments

PointsSpec == PointsInit /\ [][MoodNext]_vars

(***************************************************************************)
(* Text: a str is a sequence of one-character strings.                     *)
(***************************************************************************)
UpperCase ==
    <<"A", "B", "C", "D", "E", "F", "G", "H", "I", "J", "K", "L", "M", "N",
      "O", "P", "Q", "R", "S", "T", "U", "V", "W", "X", "Y", "Z">>

LowerCase ==
    <<"a", "b", "c", "d", "e", "f", "g", "h", "i", "j", "k", "l", "m", "n",
      "o", "p", "q", "r", "s", "t", "u", "v", "w", "x", "y", "z">>

Whitespace == {" ", "\t", "\n", "\r"}

LowerChar(ch) ==
    IF \E i \in DOMAIN UpperCase : UpperCase[i] = ch
    THEN LowerCase[CHOOSE i \in DOMAIN UpperCase : UpperCase[i] = ch]
    ELSE ch

\* str.lower()
Lower(s) == [i \in DOMAIN s |-> LowerChar(s[i])]

RECURSIVE LStrip(_)
LStrip(s) == IF s # <<>> /\ Head(s) \in Whitespace THEN LStrip(Tail(s)) ELSE s

RECURSIVE RStrip(_)
RStrip(s) ==
    IF s # <<>> /\ s[Len(s)] \in Whitespace
    THEN RStrip(SubSeq(s, 1, Len(s) - 1)) ELSE s

\* str.strip()
StripNothing(s) == s

Strip(s) == RStrip(LStrip(s))

\* `keyword in text`
Contains(text, keyword) ==
    \E i \in 1..(Len(text) - Len(keyword) + 1) :
        SubSeq(text, i, i + Len(keyword) - 1) = keyword

\* any(word in text for word in words)
AnyIn(words, text) == \E i \in DOMAIN words : Contains(text, words[i])

(***************************************************************************)
(* The chat: ChatSession, ChatMessage, CrisisAlert and the chat views.     *)
(***************************************************************************)
crisis_keywords ==
    << <<"s", "u", "i", "c", "i", "d", "e">>,
       <<"k", "i", "l", "l", " ", "m", "y", "s", "e", "l", "f">>,
       <<"e", "n", "d", " ", "i", "t", " ", "a", "l", "l">>,
       <<"h", "o", "p", "e", "l", "e", "s", "s">>,
       <<"w", "a", "n", "t", " ", "t", "o", " ", "d", "i", "e">> >>

\* contains_crisis, for the keyword list given.
CrisisNeverDetected(user_message) == FALSE

ContainsCrisis(user_message) == AnyIn(crisis_keywords, Lower(user_message))

anxiety_words ==
    << <<"a", "n", "x", "i", "o", "u", "s">>, <<"a", "n", "x", "i", "e", "t", "y">>,
       <<"w", "o", "r", "r", "i", "e", "d">>, <<"n", "e", "r", "v", "o", "u", "s">> >>

sadness_words ==
    << <<"s", "a", "d">>, <<"d", "e", "p", "r", "e", "s", "s", "e", "d">>,
       <<"d", "o", "w", "n">>, <<"l", "o", "n", "e", "l", "y">> >>

stress_words ==
    << <<"s", "t", "r", "e", "s", "s", "e", "d">>, <<"s", "t", "r", "e", "s", "s">>,
       <<"o", "v", "e", "r", "w", "h", "e", "l", "m", "e", "d">>,
       <<"p", "r", "e", "s", "s", "u", "r", "e">> >>

closing_words ==
    << <<"t", "h", "a", "n", "k">>, <<"b", "e", "t", "t", "e", "r">>,
       <<"h", "e", "l", "p", "e", "d">>, <<"g", "o", "o", "d">> >>

(***************************************************************************)
(* The scripted reply on its own: generate_ai_response applied to phrases  *)
(* made of words of every rule, in every order.                            *)
(***************************************************************************)
MaxWords == 2

\* The words tried, each with the first rule of the reply script that a
\* text holding just this word meets: 1 crisis, 2 anxiety, 3 sadness,
\* 4 stress, 5 closing, 6 none.
ReplyWords ==
    << [text |-> <<"S", "u", "i", "c", "i", "d", "e">>, rule |-> 1],
       [text |-> <<"w", "a", "n", "t", " ", "t", "o", " ", "D", "I", "E">>, rule |-> 1],
       [text |-> <<"H", "O", "P", "E", "L", "E", "S", "S">>, rule |-> 1],
       [text |-> <<"A", "n", "x", "i", "o", "u", "s">>, rule |-> 2],
       [text |-> <<"W", "O", "R", "R", "I", "E", "D">>, rule |-> 2],
       [text |-> <<"n", "e", "r", "v", "o", "u", "s", "n", "e", "s", "s">>, rule |-> 2],
       [text |-> <<"s", "a", "d">>, rule |-> 3],
       [text |-> <<"D", "o", "w", "n", "l", "o", "a", "d">>, rule |-> 3],
       [text |-> <<"L", "O", "N", "E", "L", "Y">>, rule |-> 3],
       [text |-> <<"d", "i", "s", "t", "r", "e", "s", "s", "e", "d">>, rule |-> 4],
       [text |-> <<"P", "r", "e", "s", "s", "u", "r", "e">>, rule |-> 4],
       [text |-> <<"S", "T", "R", "E", "S", "S">>, rule |-> 4],
       [text |-> <<"T", "h", "a", "n", "k", "s">>, rule |-> 5],
       [text |-> <<"g", "o", "o", "d", "b", "y", "e">>, rule |-> 5],
       [text |-> <<"B", "E", "T", "T", "E", "R">>, rule |-> 5],
       [text |-> <<"h", "e", "l", "l", "o">>, rule |-> 6],
       [text |-> <<"a", "n", "x", "i">>, rule |-> 6] >>

Phrases == UNION {[1..n -> DOMAIN ReplyWords] : n \in 1..MaxWords}

\* The words of a phrase with single spaces between them.
RECURSIVE Join(_)
Join(phrase) ==
    IF Len(phrase) = 1 THEN ReplyWords[phrase[1]].text
    ELSE Join(SubSeq(phrase, 1, Len(phrase) - 1)) \o <<" ">>
             \o ReplyWords[phrase[Len(phrase)]].text

ReplyTexts == {Join(phrase) : phrase \in Phrases}

\* The rules applied from the last to the first.
generate_ai_response_last_rule_first(user_message, is_crisis) ==
    LET message_lower == Lower(user_message)
    IN  IF AnyIn(closing_words, message_lower) THEN <<"I'm so glad I could help">>
        ELSE IF AnyIn(stress_words, message_lower) THEN <<"It sounds like you're dealing with a lot of stress">>
        ELSE IF AnyIn(sadness_words, message_lower) THEN <<"Thank you for sharing">>
        ELSE IF AnyIn(anxiety_words, message_lower) THEN <<"I hear that you're feeling anxious">>
        ELSE IF is_crisis THEN <<"I'm really concerned">>
        ELSE <<"I appreciate you sharing that">>

\* The scripted replies are fixed texts; each is named by its first words.
generate_ai_response(user_message, is_crisis) ==
    LET message_lower == Lower(user_message)
    IN  IF is_crisis THEN <<"I'm really concerned">>
        ELSE IF AnyIn(anxiety_words, message_lower) THEN <<"I hear that you're feeling anxious">>
        ELSE IF AnyIn(sadness_words, message_lower) THEN <<"Thank you for sharing">>
        ELSE IF AnyIn(stress_words, message_lower) THEN <<"It sounds like you're dealing with a lot of stress">>
        ELSE IF AnyIn(closing_words, message_lower) THEN <<"I'm so glad I could help">>
        ELSE <<"I appreciate you sharing that">>

WelcomeText == <<"Hello! I'm OpenMind AI">>

MessageRow(session, sender, text) ==
    [session |-> session, sender |-> sender, message_text |-> text,
     contains_crisis_keywords |-> FALSE, requires_intervention |-> FALSE]

AlertRow(user, session, content) ==
    [user |-> user, chat_session |-> session, severity |-> "high",
     status |-> "detected", crisis_type |-> "suicidal_ideation",
     triggering_content |-> content, acknowledged_at |-> None,
     resolved_at |-> None]

\* get_object_or_404(ChatSession, id=session_id, user=user): the row, if any.
SessionVisibleToAnyone(session_id, user) == session_id \in DOMAIN chatSessions

SessionVisibleWhileActive(session_id, user) ==
    /\ session_id \in DOMAIN chatSessions
    /\ chatSessions[session_id].user = user
    /\ chatSessions[session_id].status = "active"

SessionVisible(session_id, user) ==
    /\ session_id \in DOMAIN chatSessions
    /\ chatSessions[session_id].user = user

\* A JsonResponse.
Json(status, what, data) ==
    [status |-> status, page |-> what, form_errors |-> FALSE, data |-> data]

\* What send_message_api's `except Exception` makes of an exception e.
Caught(e) == Json(500, e, <<>>)

UserMessages == {i \in DOMAIN chatMessages : chatMessages[i].sender = "user"}

SendLabels ==
    {"send_user_msg", "send_flag", "send_session", "send_alert", "send_bot", "send_total"}

\* Requests that will add a user message, or have.
SendsStarted ==
    Cardinality(UserMessages)
        + Cardinality({c \in Clients : pc[c] \in {"send_start", "send_user_msg"}})

\* The request bodies tried: a text with a crisis keyword (in upper case,
\* padded), one without (a near miss, padded), blank text, no 'message' key.
MessageTexts ==
    { <<" ", "I", " ", "f", "e", "e", "l", " ", "H", "O", "P", "E", "L", "E", "S", "S">>,
      <<"h", "o", "p", "e", " ", "l", "e", "s", "s", " ">>,
      <<" ", "\t">>,
      <<>> }

\* GET /chat/new/ arrives.
ChatNewGet(c) ==
    /\ Len(chatSessions) + Cardinality({d \in Clients : pc[d] = "chat_new"}) < Cardinality(SessionIds)
    /\ Arrive(c, "chat_new", [NoReq EXCEPT !.view = "chat_new"])
    /\ UNCHANGED <<environ, clock, users, userProfiles, userStreaks, moodEntries,
                   chatSessions, chatMessages, crisisAlerts, resources, auth, faults>>

\* chat_session_view without session_id: ChatSession.objects.create(...)
ChatSessionCreate(c) ==
    /\ pc[c] = "chat_new"
    /\ IF auth[c] = Anonymous
       THEN /\ Finish(c, LoginRequired)
            /\ UNCHANGED chatSessions
       ELSE LET session == [NoSession EXCEPT !.id = Len(chatSessions) + 1,
                                             !.user = auth[c]]
            IN  /\ chatSessions' = Append(chatSessions, session)
                /\ Goto(c, "chat_welcome", [loc[c] EXCEPT !.session = session])
    /\ UNCHANGED <<environ, clock, users, userProfiles, userStreaks, moodEntries,
                   chatMessages, crisisAlerts, resources, auth, req, faults>>

\* ... then the welcome ChatMessage, and the page.
ChatWelcomeCreate(c) ==
    /\ pc[c] = "chat_welcome"
    /\ chatMessages' = Append(chatMessages, MessageRow(loc[c].session.id, "bot", WelcomeText))
    /\ Finish(c, Render("chat/session.html", FALSE))
    /\ UNCHANGED <<environ, clock, users, userProfiles, userStreaks, moodEntries,
                   chatSessions, crisisAlerts, resources, auth, req, faults>>

\* GET /chat/<session_id>/ arrives.
ChatSessionGet(c) ==
    \E sid \in SessionIds \cup {UnknownSession} :
        /\ Arrive(c, "chat_open", [NoReq EXCEPT !.view = "chat_session", !.session_id = sid])
        /\ UNCHANGED <<environ, clock, users, userProfiles, userStreaks, moodEntries,
                       chatSessions, chatMessages, crisisAlerts, resources, auth, faults>>

\* chat_session_view with a session_id.
ChatSessionView(c) ==
    /\ pc[c] = "chat_open"
    /\ Finish(c, IF auth[c] = Anonymous THEN LoginRequired
                 ELSE IF ~SessionVisible(req[c].session_id, auth[c]) THEN NotFound
                 ELSE Render("chat/session.html", FALSE))
    /\ UNCHANGED <<environ, clock, users, userProfiles, userStreaks, moodEntries,
                   chatSessions, chatMessages, crisisAlerts, resources, auth, req, faults>>

\* POST /chat/<session_id>/send/ arrives.
SendMessagePost(c) ==
    \E sid \in SessionIds \cup {UnknownSession}, text \in MessageTexts, bad \in BOOLEAN :
        /\ SendsStarted < MaxSends
        /\ bad => text = <<>>
        /\ Arrive(c, "send_start",
                  [NoReq EXCEPT !.view = "send_message", !.session_id = sid,
                                !.message = text, !.malformed = bad])
        /\ UNCHANGED <<environ, clock, users, userProfiles, userStreaks, moodEntries,
                       chatSessions, chatMessages, crisisAlerts, resources, auth, faults>>

\* @login_required, get_object_or_404, json.loads, data.get('message', '').strip()
SendLookup(c) ==
    /\ pc[c] = "send_start"
    /\ LET user_message == Strip(req[c].message)
       IN  IF auth[c] = Anonymous THEN Finish(c, LoginRequired)
           ELSE IF ~SessionVisible(req[c].session_id, auth[c]) THEN Finish(c, Caught("Http404"))
           ELSE IF req[c].malformed THEN Finish(c, Caught("JSONDecodeError"))
           ELSE IF user_message = <<>> THEN Finish(c, Json(400, "Message cannot be empty", <<>>))
           ELSE Goto(c, "send_user_msg",
                     [loc[c] EXCEPT !.session = chatSessions[req[c].session_id],
                                    !.user_message = user_message,
                                    !.user = auth[c]])
    /\ UNCHANGED <<environ, clock, users, userProfiles, userStreaks, moodEntries,
                   chatSessions, chatMessages, crisisAlerts, resources, auth, req, faults>>

\* user_msg = ChatMessage.objects.create(...); contains_crisis = any(...)
SendCreateUserMsg(c) ==
    /\ pc[c] = "send_user_msg"
    /\ chatMessages' = Append(chatMessages,
                              MessageRow(loc[c].session.id, "user", loc[c].user_message))
    /\ LET contains_crisis == ContainsCrisis(loc[c].user_message)
       IN  Goto(c, IF contains_crisis THEN "send_flag" ELSE "send_bot",
                [loc[c] EXCEPT !.user_msg = Len(chatMessages) + 1,
                               !.contains_crisis = contains_crisis])
    /\ UNCHANGED <<environ, clock, users, userProfiles, userStreaks, moodEntries,
                   chatSessions, crisisAlerts, resources, auth, req, faults>>

\* user_msg.contains_crisis_keywords = True; ...; user_msg.save()
SendFlagUserMsg(c) ==
    /\ pc[c] = "send_flag"
    /\ chatMessages' = [chatMessages EXCEPT ![loc[c].user_msg] =
                           [MessageRow(loc[c].session.id, "user", loc[c].user_message)
                               EXCEPT !.contains_crisis_keywords = TRUE,
                                      !.requires_intervention = TRUE]]
    /\ Goto(c, "send_session", loc[c])
    /\ UNCHANGED <<environ, clock, users, userProfiles, userStreaks, moodEntries,
                   chatSessions, crisisAlerts, resources, auth, req, faults>>

\* session.crisis_detected = True; session.crisis_severity = 8; session.save()
SendSaveSessionCrisis(c) ==
    /\ pc[c] = "send_session"
    /\ LET session == [loc[c].session EXCEPT !.crisis_detected = TRUE,
                                             !.crisis_severity = 8]
       IN  /\ chatSessions' = [chatSessions EXCEPT ![session.id] = session]
           /\ Goto(c, "send_alert", [loc[c] EXCEPT !.session = session])
    /\ UNCHANGED <<environ, clock, users, userProfiles, userStreaks, moodEntries,
                   chatMessages, crisisAlerts, resources, auth, req, faults>>

\* CrisisAlert.objects.create(user=request.user, chat_session=session, ...)
SendCreateAlert(c) ==
    /\ pc[c] = "send_alert"
    /\ crisisAlerts' = Append(crisisAlerts,
                              AlertRow(loc[c].user, loc[c].session.id, loc[c].user_message))
    /\ Goto(c, "send_bot",
            [loc[c] EXCEPT !.alerts = Append(@, Len(crisisAlerts) + 1)])
    /\ UNCHANGED <<environ, clock, users, userProfiles, userStreaks, moodEntries,
                   chatSessions, chatMessages, resources, auth, req, faults>>

\* bot_msg = ChatMessage.objects.create(... generate_ai_response(...) ...)
SendCreateBotMsg(c) ==
    /\ pc[c] = "send_bot"
    /\ chatMessages' = Append(chatMessages,
                              MessageRow(loc[c].session.id, "bot",
                                         generate_ai_response(loc[c].user_message,
                                                              loc[c].contains_crisis)))
    /\ Goto(c, "send_total", [loc[c] EXCEPT !.bot_msg = Len(chatMessages) + 1])
    /\ UNCHANGED <<environ, clock, users, userProfiles, userStreaks, moodEntries,
                   chatSessions, crisisAlerts, resources, auth, req, faults>>

\* session.total_messages += 2; session.save(); the JSON response.
SendSaveSessionTotal(c) ==
    /\ pc[c] = "send_total"
    /\ LET session == [loc[c].session EXCEPT !.total_messages = @ + 2]
       IN  chatSessions' = [chatSessions EXCEPT ![session.id] = session]
    /\ Finish(c, Json(200, "success", <<loc[c].user_msg, loc[c].bot_msg>>))
    /\ UNCHANGED <<environ, clock, users, userProfiles, userStreaks, moodEntries,
                   chatMessages, crisisAlerts, resources, auth, req, faults>>

\* A request to /chat/<session_id>/end/ arrives.
EndChatRequest(c) ==
    \E sid \in SessionIds \cup {UnknownSession} :
        /\ Arrive(c, "end_start", [NoReq EXCEPT !.view = "end_chat", !.session_id = sid])
        /\ UNCHANGED <<environ, clock, users, userProfiles, userStreaks, moodEntries,
                       chatSessions, chatMessages, crisisAlerts, resources, auth, faults>>

\* end_chat_session: @login_required, get_object_or_404
EndChatLookup(c) ==
    /\ pc[c] = "end_start"
    /\ IF auth[c] = Anonymous THEN Finish(c, LoginRequired)
       ELSE IF ~SessionVisible(req[c].session_id, auth[c]) THEN Finish(c, NotFound)
       ELSE Goto(c, "end_save", [loc[c] EXCEPT !.session = chatSessions[req[c].session_id]])
    /\ UNCHANGED <<environ, clock, users, userProfiles, userStreaks, moodEntries,
                   chatSessions, chatMessages, crisisAlerts, resources, auth, req, faults>>

\* session.status = 'ended'; session.ended_at = timezone.now(); session.save()
EndChatSave(c) ==
    /\ pc[c] = "end_save"
    /\ LET session == [loc[c].session EXCEPT !.status = "ended", !.ended_at = clock]
       IN  chatSessions' = [chatSessions EXCEPT ![session.id] = session]
    /\ Finish(c, Redirect("chat_home"))
    /\ UNCHANGED <<environ, clock, users, userProfiles, userStreaks, moodEntries,
                   chatMessages, crisisAlerts, resources, auth, req, faults>>

(***************************************************************************)
(* The resource library: Resource, resource_detail_view.                   *)
(***************************************************************************)
\* A published and an unpublished resource (made in the admin).
TwoResources ==
    <<[NoResource EXCEPT !.id = 1, !.is_published = TRUE],
      [NoResource EXCEPT !.id = 2]>>

UnknownResource == Len(TwoResources) + 1

\* get_object_or_404(Resource, id=resource_id, is_published=True): the row, if any.
ResourceVisible(resource_id) ==
    /\ resource_id \in DOMAIN resources
    /\ resources[resource_id].is_published

\* GET /resources/<resource_id>/ arrives.
ResourceDetailGet(c) ==
    \E rid \in DOMAIN TwoResources \cup {UnknownResource} :
        /\ \A i \in DOMAIN resources :
              resources[i].view_count
                  + Cardinality({d \in Clients : pc[d] \in {"resource_start", "resource_save"}})
                  < MaxViews
        /\ Arrive(c, "resource_start",
                  [NoReq EXCEPT !.view = "resource_detail", !.resource_id = rid])
        /\ UNCHANGED <<environ, clock, users, userProfiles, userStreaks, moodEntries,
                       chatSessions, chatMessages, crisisAlerts, resources, auth, faults>>

\* resource_detail_view: @login_required, get_object_or_404
ResourceLookup(c) ==
    /\ pc[c] = "resource_start"
    /\ IF auth[c] = Anonymous THEN Finish(c, LoginRequired)
       ELSE IF ~ResourceVisible(req[c].resource_id) THEN Finish(c, NotFound)
       ELSE Goto(c, "resource_save",
                 [loc[c] EXCEPT !.resource = resources[req[c].resource_id]])
    /\ UNCHANGED <<environ, clock, users, userProfiles, userStreaks, moodEntries,
                   chatSessions, chatMessages, crisisAlerts, resources, auth, req, faults>>

\* resource.view_count += 1; resource.save()
ResourceSave(c) ==
    /\ pc[c] = "resource_save"
    /\ LET resource == [loc[c].resource EXCEPT !.view_count = @ + 1]
       IN  resources' = [resources EXCEPT ![resource.id] = resource]
    /\ Finish(c, Render("resources/detail.html", FALSE))
    /\ UNCHANGED <<environ, clock, users, userProfiles, userStreaks, moodEntries,
                   chatSessions, chatMessages, crisisAlerts, auth, req, faults>>

(***************************************************************************)
(* The chat's specification: two registered users and two concurrent       *)
(* workers, the second one serving the first user again, the other user    *)
(* or nobody.                                                              *)
(***************************************************************************)
ChatInit ==
    /\ clock = 1
    /\ users = TwoUsers
    /\ userProfiles = <<[user |-> 1], [user |-> 2]>>
    /\ userStreaks = <<>>
    /\ moodEntries = EmptyBag
    /\ chatSessions = <<>>
    /\ chatMessages = <<>>
    /\ crisisAlerts = <<>>
    /\ resources = TwoResources
    /\ auth \in {[c \in Clients |-> IF c = "c1" THEN 1 ELSE u] : u \in {Anonymous, 1, 2}}
    /\ InitIdle
    /\ environ = Unset

ChatNext ==
    \E c \in Clients :
        \/ ChatNewGet(c)
        \/ ChatSessionCreate(c)
        \/ ChatWelcomeCreate(c)
        \/ ChatSessionGet(c)
        \/ ChatSessionView(c)
        \/ SendMessagePost(c)
        \/ SendLookup(c)
        \/ SendCreateUserMsg(c)
        \/ SendFlagUserMsg(c)
        \/ SendSaveSessionCrisis(c)
        \/ SendCreateAlert(c)
        \/ SendCreateBotMsg(c)
        \/ SendSaveSessionTotal(c)
        \/ EndChatRequest(c)
        \/ EndChatLookup(c)
        \/ EndChatSave(c)

ChatSpec == ChatInit /\ [][ChatNext]_vars

(***************************************************************************)
(* The views that look a record up by id, one request at a time: no step   *)
(* of a request is taken while another request is in flight.               *)
(***************************************************************************)
Alone(c) == \A d \in Clients \ {c} : pc[d] = "idle"

LookupNext ==
    \E c \in Clients :
        \/ Alone(c) /\ ChatNewGet(c)
        \/ Alone(c) /\ ChatSessionCreate(c)
        \/ Alone(c) /\ ChatWelcomeCreate(c)
        \/ Alone(c) /\ ChatSessionGet(c)
        \/ Alone(c) /\ ChatSessionView(c)
        \/ Alone(c) /\ SendMessagePost(c)
        \/ Alone(c) /\ SendLookup(c)
        \/ Alone(c) /\ SendCreateUserMsg(c)
        \/ Alone(c) /\ SendFlagUserMsg(c)
        \/ Alone(c) /\ SendSaveSessionCrisis(c)
        \/ Alone(c) /\ SendCreateAlert(c)
        \/ Alone(c) /\ SendCreateBotMsg(c)
        \/ Alone(c) /\ SendSaveSessionTotal(c)
        \/ Alone(c) /\ EndChatRequest(c)
        \/ Alone(c) /\ EndChatLookup(c)
        \/ Alone(c) /\ EndChatSave(c)
        \/ Alone(c) /\ ResourceDetailGet(c)
        \/ Alone(c) /\ ResourceLookup(c)
        \/ Alone(c) /\ ResourceSave(c)

LookupSpec == ChatInit /\ [][LookupNext]_vars

(***************************************************************************)
(* Accounts: User, UserProfile, UserStreak; register_view, login_view,     *)
(* logout_view.                                                            *)
(***************************************************************************)
UsernameTaken(username) == \E i \in DOMAIN users : users[i].username = username

\* UserRegistrationForm.clean_email: User.objects.filter(email=email).exists()
EmailNeverTaken(email) == FALSE

EmailTaken(email) == \E i \in DOMAIN users : users[i].email = email

\* UserRegistrationForm.is_valid(): the unique username of the ModelForm's
\* model, clean_email, and clean (the two passwords).
UserRegistrationForm_is_valid(r) ==
    /\ r.other_valid
    /\ ~UsernameTaken(r.username)
    /\ ~EmailTaken(r.email)
    /\ r.password = r.confirm_password

Usernames == {"ann", "cat", "dan"}
\* The usernames tried at login: of a user present from the start and of one
\* who registers.
LoginNames == {"ann", "cat"}
Emails == {"ann@x", "cat@x"}
Passwords == {"pw", "typo"}

RegisterLabels == {"reg_save", "reg_profile", "reg_streak", "reg_login"}

\* A POST to /register/ arrives.
RegisterPost(c) ==
    \E username \in Usernames, email \in Emails, confirm \in Passwords :
        /\ Len(users) + Cardinality({d \in Clients : pc[d] \in {"reg_form", "reg_save"}})
               < MaxUsers
        /\ Arrive(c, "reg_form",
                  [NoReq EXCEPT !.view = "register", !.username = username,
                                !.email = email, !.password = "pw",
                                !.confirm_password = confirm])
        /\ UNCHANGED <<environ, clock, users, userProfiles, userStreaks, moodEntries,
                       chatSessions, chatMessages, crisisAlerts, resources, auth, faults>>

\* register_view: request.user.is_authenticated, form.is_valid()
RegisterValidate(c) ==
    /\ pc[c] = "reg_form"
    /\ IF auth[c] # Anonymous THEN Finish(c, Redirect("dashboard"))
       ELSE IF ~UserRegistrationForm_is_valid(req[c])
       THEN Finish(c, Render("auth/register.html", TRUE))
       ELSE Goto(c, "reg_save", loc[c])
    /\ UNCHANGED <<environ, clock, users, userProfiles, userStreaks, moodEntries,
                   chatSessions, chatMessages, crisisAlerts, resources, auth, req, faults>>

\* user = form.save(commit=False); user.set_password(...); user.save()
\* users.username is unique: the INSERT of a second row with it fails.
RegisterSaveUser(c) ==
    /\ pc[c] = "reg_save"
    /\ IF UsernameTaken(req[c].username)
       THEN /\ Finish(c, ServerError("IntegrityError"))
            /\ UNCHANGED users
       ELSE /\ users' = Append(users, [UserRow(req[c].username, req[c].email)
                                          EXCEPT !.password = req[c].password])
            /\ Goto(c, "reg_profile", [loc[c] EXCEPT !.user = Len(users) + 1])
    /\ UNCHANGED <<environ, clock, userProfiles, userStreaks, moodEntries,
                   chatSessions, chatMessages, crisisAlerts, resources, auth, req, faults>>

\* UserProfile.objects.create(user=user, ...)
RegisterCreateProfile(c) ==
    /\ pc[c] = "reg_profile"
    /\ userProfiles' = Append(userProfiles, [user |-> loc[c].user])
    /\ Goto(c, "reg_streak", loc[c])
    /\ UNCHANGED <<environ, clock, users, userStreaks, moodEntries,
                   chatSessions, chatMessages, crisisAlerts, resources, auth, req, faults>>

\* UserStreak.objects.create(user=user)
RegisterCreateStreak(c) ==
    /\ pc[c] = "reg_streak"
    /\ IF StreakUniqueViolated(loc[c].user)
       THEN /\ Finish(c, ServerError("IntegrityError"))
            /\ UNCHANGED userStreaks
       ELSE /\ userStreaks' = Append(userStreaks, NewStreak(loc[c].user))
            /\ Goto(c, "reg_login", loc[c])
    /\ UNCHANGED <<environ, clock, users, userProfiles, moodEntries,
                   chatSessions, chatMessages, crisisAlerts, resources, auth, req, faults>>

\* login(request, user); redirect('onboarding')
RegisterLogin(c) ==
    /\ pc[c] = "reg_login"
    /\ auth' = [auth EXCEPT ![c] = loc[c].user]
    /\ Finish(c, Redirect("onboarding"))
    /\ UNCHANGED <<environ, clock, users, userProfiles, userStreaks, moodEntries,
                   chatSessions, chatMessages, crisisAlerts, resources, req, faults>>

\* A POST to /login/ arrives.
LoginPost(c) ==
    \E username \in LoginNames, password \in Passwords :
        /\ Arrive(c, "login_form",
                  [NoReq EXCEPT !.view = "login", !.username = username,
                                !.password = password])
        /\ UNCHANGED <<environ, clock, users, userProfiles, userStreaks, moodEntries,
                       chatSessions, chatMessages, crisisAlerts, resources, auth, faults>>

\* authenticate(request, username=..., password=...): ModelBackend gives the
\* user whose password matches and whose is_active is set, else None.
Authenticate(username, password) ==
    LET found == {i \in DOMAIN users :
                      /\ users[i].username = username
                      /\ users[i].password = password
                      /\ users[i].is_active}
    IN  IF found = {} THEN 0 ELSE CHOOSE i \in found : TRUE

\* request.user: the user of the session, unless is_active is off
\* (ModelBackend.get_user gives None for an inactive user).
RequestUser(c) ==
    IF auth[c] # Anonymous /\ users[auth[c]].is_active THEN auth[c] ELSE Anonymous

\* login_view up to the check of user.account_suspended, on the User object
\* that authenticate loaded.
LoginAuthenticate(c) ==
    /\ pc[c] = "login_form"
    /\ LET user == Authenticate(req[c].username, req[c].password)
       IN  IF RequestUser(c) # Anonymous
           THEN Finish(c, Redirect("dashboard"))
           ELSE IF user = 0
           THEN Finish(c, Render("auth/login.html", FALSE))
           ELSE IF users[user].account_suspended
           THEN Finish(c, Redirect("login"))
           ELSE Goto(c, "login_login",
                     [loc[c] EXCEPT !.user = user, !.user_row = users[user]])
    /\ UNCHANGED <<environ, clock, users, userProfiles, userStreaks, moodEntries,
                   chatSessions, chatMessages, crisisAlerts, resources, auth, req, faults>>

\* login(request, user): the session is written.
LoginLogin(c) ==
    /\ pc[c] = "login_login"
    /\ auth' = [auth EXCEPT ![c] = loc[c].user]
    /\ Goto(c, "login_save", loc[c])
    /\ UNCHANGED <<environ, clock, users, userProfiles, userStreaks, moodEntries,
                   chatSessions, chatMessages, crisisAlerts, resources, req, faults>>

\* user.last_active = timezone.now(); user.save(); redirect(next_url)
LoginSaveUser(c) ==
    /\ pc[c] = "login_save"
    /\ users' = [users EXCEPT ![loc[c].user] =
                    [loc[c].user_row EXCEPT !.last_active = clock]]
    /\ Finish(c, Redirect("dashboard"))
    /\ UNCHANGED <<environ, clock, userProfiles, userStreaks, moodEntries,
                   chatSessions, chatMessages, crisisAlerts, resources, auth, req, faults>>

\* A request to /logout/ arrives.
LogoutRequest(c) ==
    /\ Arrive(c, "logout", [NoReq EXCEPT !.view = "logout"])
    /\ UNCHANGED <<environ, clock, users, userProfiles, userStreaks, moodEntries,
                   chatSessions, chatMessages, crisisAlerts, resources, auth, faults>>

\* logout_view: @login_required, logout(request)
LogoutView(c) ==
    /\ pc[c] = "logout"
    /\ IF auth[c] = Anonymous
       THEN Finish(c, LoginRequired) /\ UNCHANGED auth
       ELSE /\ auth' = [auth EXCEPT ![c] = Anonymous]
            /\ Finish(c, Redirect("home"))
    /\ UNCHANGED <<environ, clock, users, userProfiles, userStreaks, moodEntries,
                   chatSessions, chatMessages, crisisAlerts, resources, req, faults>>

(***************************************************************************)
(* The accounts' specification: one registered user, nobody logged in, two *)
(* concurrent workers.                                                     *)
(***************************************************************************)
AuthInit ==
    /\ clock = 1
    /\ users = <<UserRow("ann", "ann@x")>>
    /\ userProfiles = <<[user |-> 1]>>
    /\ userStreaks = <<[NoStreak EXCEPT !.id = 1, !.user = 1]>>
    /\ moodEntries = EmptyBag
    /\ chatSessions = <<>>
    /\ chatMessages = <<>>
    /\ crisisAlerts = <<>>
    /\ resources = <<>>
    /\ auth = [c \in Clients |-> Anonymous]
    /\ InitIdle
    /\ environ = Unset

AuthNext ==
    \E c \in Clients :
        \/ RegisterPost(c)
        \/ RegisterValidate(c)
        \/ RegisterSaveUser(c)
        \/ RegisterCreateProfile(c)
        \/ RegisterCreateStreak(c)
        \/ RegisterLogin(c)
        \/ LoginPost(c)
        \/ LoginAuthenticate(c)
        \/ LoginLogin(c)
        \/ LoginSaveUser(c)
        \/ LogoutRequest(c)
        \/ LogoutView(c)

AuthSpec == AuthInit /\ [][AuthNext]_vars

(***************************************************************************)
(* profile_view.                                                           *)
(***************************************************************************)
ProfileRowsOf(user) == {i \in DOMAIN userProfiles : userProfiles[i].user = user}

\* A GET of /profile/ arrives.
ProfileGet(c) ==
    /\ Arrive(c, "profile_start", [NoReq EXCEPT !.view = "profile"])
    /\ UNCHANGED <<environ, clock, users, userProfiles, userStreaks, moodEntries,
                   chatSessions, chatMessages, crisisAlerts, resources, auth, faults>>

\* @login_required; profile = request.user.profile, which raises
\* RelatedObjectDoesNotExist for a user without UserProfile.
ProfileLookup(c) ==
    /\ pc[c] = "profile_start"
    /\ IF auth[c] = Anonymous THEN Finish(c, LoginRequired)
       ELSE IF ProfileRowsOf(auth[c]) = {}
       THEN Finish(c, ServerError("RelatedObjectDoesNotExist"))
       ELSE Goto(c, "profile_streak", [loc[c] EXCEPT !.user = auth[c]])
    /\ UNCHANGED <<environ, clock, users, userProfiles, userStreaks, moodEntries,
                   chatSessions, chatMessages, crisisAlerts, resources, auth, req, faults>>

\* UserStreak.objects.get_or_create(user=request.user)[0]: the SELECT; the
\* rest of the view reads and renders.
ProfileStreakGet(c) ==
    /\ pc[c] = "profile_streak"
    /\ IF StreakRowsOf(loc[c].user) # {}
       THEN Finish(c, Render("profile/view.html", FALSE))
       ELSE Goto(c, "profile_streak_create", loc[c])
    /\ UNCHANGED <<environ, clock, users, userProfiles, userStreaks, moodEntries,
                   chatSessions, chatMessages, crisisAlerts, resources, auth, req, faults>>

\* get_or_create after DoesNotExist: the INSERT, and on IntegrityError the
\* SELECT again.
ProfileStreakCreate(c) ==
    /\ pc[c] = "profile_streak_create"
    /\ userStreaks' = IF StreakUniqueViolated(loc[c].user) THEN userStreaks
                      ELSE Append(userStreaks, NewStreak(loc[c].user))
    /\ Finish(c, Render("profile/view.html", FALSE))
    /\ UNCHANGED <<environ, clock, users, userProfiles, moodEntries,
                   chatSessions, chatMessages, crisisAlerts, resources, auth, req, faults>>

(***************************************************************************)
(* Registration, login, the profile page and the mood tracker together,    *)
(* on one day: a user with UserProfile and UserStreak, a user with a       *)
(* UserProfile and no UserStreak (an account made outside register_view),  *)
(* whoever registers, and two concurrent workers.                          *)
(***************************************************************************)
AccountInit ==
    /\ clock = 1
    /\ users = TwoUsers
    /\ userProfiles = <<[user |-> 1], [user |-> 2]>>
    /\ userStreaks = <<[NoStreak EXCEPT !.id = 1, !.user = 1]>>
    /\ moodEntries = EmptyBag
    /\ chatSessions = <<>>
    /\ chatMessages = <<>>
    /\ crisisAlerts = <<>>
    /\ resources = <<>>
    /\ auth \in [Clients -> {Anonymous, 2}]
    /\ InitIdle
    /\ environ = Unset

AccountNext ==
    \E c \in Clients :
        \/ RegisterPost(c)
        \/ RegisterValidate(c)
        \/ RegisterSaveUser(c)
        \/ RegisterCreateProfile(c)
        \/ RegisterCreateStreak(c)
        \/ RegisterLogin(c)
        \/ LoginPost(c)
        \/ LoginAuthenticate(c)
        \/ LoginLogin(c)
        \/ LoginSaveUser(c)
        \/ ProfileGet(c)
        \/ ProfileLookup(c)
        \/ ProfileStreakGet(c)
        \/ ProfileStreakCreate(c)
        \/ MoodTrackerPost(c)
        \/ MoodEntrySave(c)
        \/ StreakGetOrCreate(c)
        \/ StreakCreate(c)
        \/ StreakSave(c)

AccountSpec == AccountInit /\ [][AccountNext]_vars

(***************************************************************************)
(* The reply script applied to one text per behaviour.                     *)
(***************************************************************************)
\* bot_response = generate_ai_response(user_message, contains_crisis)
ReplyGenerate(c) ==
    /\ pc[c] = "reply"
    /\ Finish(c, Json(200, "reply",
                      generate_ai_response(req[c].message, ContainsCrisis(req[c].message))))
    /\ UNCHANGED <<environ, clock, users, userProfiles, userStreaks, moodEntries,
                   chatSessions, chatMessages, crisisAlerts, resources, auth, req, faults>>

ReplyInit ==
    /\ clock = 1
    /\ users = TwoUsers
    /\ userProfiles = <<[user |-> 1], [user |-> 2]>>
    /\ userStreaks = <<>>
    /\ moodEntries = EmptyBag
    /\ chatSessions = <<>>
    /\ chatMessages = <<>>
    /\ crisisAlerts = <<>>
    /\ resources = <<>>
    /\ auth = [c \in Clients |-> 1]
    /\ pc = [c \in Clients |-> IF c = "c1" THEN "reply" ELSE "idle"]
    /\ req \in {[c \in Clients |-> IF c = "c1"
                                   THEN [NoReq EXCEPT !.view = "reply", !.message = text]
                                   ELSE NoReq] : text \in ReplyTexts}
    /\ resp = [c \in Clients |-> NoResp]
    /\ loc = [c \in Clients |-> NoLocals]
    /\ faults = 0
    /\ environ = Unset

ReplyNext == \E c \in Clients : ReplyGenerate(c)

ReplySpec == ReplyInit /\ [][ReplyNext]_vars

(***************************************************************************)
(* Suspension: the admin action suspend_users beside login_view.           *)
(***************************************************************************)
\* UserAdmin.suspend_users: queryset.update(account_suspended=True,
\* is_active=False), one UPDATE of these two columns.
SuspendUsers(u) ==
    /\ u \in DOMAIN users
    /\ ~users[u].account_suspended
    /\ users' = [users EXCEPT ![u].account_suspended = TRUE, ![u].is_active = FALSE]
    /\ UNCHANGED <<environ, clock, userProfiles, userStreaks, moodEntries, chatSessions,
                   chatMessages, crisisAlerts, resources, auth, pc, req, resp, loc,
                   faults>>

\* Two users with the same password: ann, in good standing, and cat, whose
\* account_suspended was set in the admin's change form with is_active
\* left on.  Nobody is logged in.
SuspendInit ==
    /\ clock = 1
    /\ users = <<UserRow("ann", "ann@x"),
                 [UserRow("cat", "cat@x") EXCEPT !.account_suspended = TRUE]>>
    /\ userProfiles = <<[user |-> 1], [user |-> 2]>>
    /\ userStreaks = <<[NoStreak EXCEPT !.id = 1, !.user = 1],
                       [NoStreak EXCEPT !.id = 2, !.user = 2]>>
    /\ moodEntries = EmptyBag
    /\ chatSessions = <<>>
    /\ chatMessages = <<>>
    /\ crisisAlerts = <<>>
    /\ resources = <<>>
    /\ auth = [c \in Clients |-> Anonymous]
    /\ InitIdle
    /\ environ = Unset

SuspendNext ==
    \/ \E u \in DOMAIN users : SuspendUsers(u)
    \/ Tick
    \/ \E c \in Clients :
        \/ LoginPost(c)
        \/ LoginAuthenticate(c)
        \/ LoginLogin(c)
        \/ LoginSaveUser(c)
        \/ LogoutRequest(c)
        \/ LogoutView(c)

SuspendSpec == SuspendInit /\ [][SuspendNext]_vars

(***************************************************************************)
(* Crisis alerts after detection: CrisisAlertAdmin's two actions and       *)
(* dashboard_view.                                                         *)
(***************************************************************************)
AdminActions == {"mark_as_acknowledged", "mark_as_resolved"}

AcknowledgedUnlessResolved(alert, now) ==
    IF alert.status = "resolved" THEN alert
    ELSE [alert EXCEPT !.status = "acknowledged", !.acknowledged_at = now]

\* queryset.update(status='acknowledged', acknowledged_at=timezone.now()), on one row.
Acknowledged(alert, now) ==
    [alert EXCEPT !.status = "acknowledged", !.acknowledged_at = now]

\* queryset.update(status='resolved', resolved_at=timezone.now()), on one row.
Resolved(alert, now) ==
    [alert EXCEPT !.status = "resolved", !.resolved_at = now]

\* The admin site serves active staff users only.
AdminHasPermission(c) ==
    /\ auth[c] # Anonymous
    /\ users[auth[c]].is_active
    /\ users[auth[c]].is_staff

\* CrisisAlert.objects.filter(user=user, status__in=['detected', 'acknowledged']).exists()
ActiveCrisis(user) ==
    \E i \in DOMAIN crisisAlerts :
        /\ crisisAlerts[i].user = user
        /\ crisisAlerts[i].status \in {"detected", "acknowledged"}

\* The changelist's action form is posted with some alerts ticked.
AdminActionPost(c) ==
    \E action \in AdminActions, selected \in (SUBSET DOMAIN crisisAlerts) \ {{}} :
        /\ Arrive(c, "admin_action",
                  [NoReq EXCEPT !.view = "admin", !.action = action,
                                !.selected = selected])
        /\ UNCHANGED <<environ, clock, users, userProfiles, userStreaks, moodEntries,
                       chatSessions, chatMessages, crisisAlerts, resources, auth, faults>>

\* mark_as_acknowledged / mark_as_resolved: one UPDATE of the ticked rows,
\* whatever their status; then the message with queryset.count().
AdminAction(c) ==
    /\ pc[c] = "admin_action"
    /\ IF ~AdminHasPermission(c)
       THEN /\ Finish(c, Redirect("admin:login"))
            /\ UNCHANGED crisisAlerts
       ELSE /\ crisisAlerts' =
                  [i \in DOMAIN crisisAlerts |->
                      IF i \notin req[c].selected THEN crisisAlerts[i]
                      ELSE IF req[c].action = "mark_as_acknowledged"
                      THEN Acknowledged(crisisAlerts[i], clock)
                      ELSE Resolved(crisisAlerts[i], clock)]
            /\ Finish(c, [Redirect("admin:changelist")
                             EXCEPT !.data = <<Cardinality(req[c].selected)>>])
    /\ UNCHANGED <<environ, clock, users, userProfiles, userStreaks, moodEntries,
                   chatSessions, chatMessages, resources, auth, req, faults>>

\* GET /dashboard/ arrives.
DashboardGet(c) ==
    /\ Arrive(c, "dashboard", [NoReq EXCEPT !.view = "dashboard"])
    /\ UNCHANGED <<environ, clock, users, userProfiles, userStreaks, moodEntries,
                   chatSessions, chatMessages, crisisAlerts, resources, auth, faults>>

\* dashboard_view: @login_required; of the context only active_crisis is kept.
DashboardView(c) ==
    /\ pc[c] = "dashboard"
    /\ Finish(c, IF auth[c] = Anonymous THEN LoginRequired
                 ELSE [Render("dashboard/home.html", FALSE)
                          EXCEPT !.data = <<ActiveCrisis(auth[c])>>])
    /\ UNCHANGED <<environ, clock, users, userProfiles, userStreaks, moodEntries,
                   chatSessions, chatMessages, crisisAlerts, resources, auth, req, faults>>

CrisisText == <<"h", "o", "p", "e", "l", "e", "s", "s">>

\* ann has sent CrisisText twice in her session, so send_message_api has
\* raised two alerts for her; cat is staff.  ann is logged in on c1 or not
\* at all, cat on c2.
AlertInit ==
    /\ clock = 1
    /\ users = <<UserRow("ann", "ann@x"),
                 [UserRow("cat", "cat@x") EXCEPT !.is_staff = TRUE]>>
    /\ userProfiles = <<[user |-> 1], [user |-> 2]>>
    /\ userStreaks = <<[NoStreak EXCEPT !.id = 1, !.user = 1],
                       [NoStreak EXCEPT !.id = 2, !.user = 2]>>
    /\ moodEntries = EmptyBag
    /\ chatSessions = <<[NoSession EXCEPT !.id = 1, !.user = 1, !.total_messages = 4,
                                          !.crisis_detected = TRUE,
                                          !.crisis_severity = 8]>>
    /\ LET asked == [MessageRow(1, "user", CrisisText)
                        EXCEPT !.contains_crisis_keywords = TRUE,
                               !.requires_intervention = TRUE]
           answered == MessageRow(1, "bot", generate_ai_response(CrisisText, TRUE))
       IN  chatMessages = <<MessageRow(1, "bot", WelcomeText),
                            asked, answered, asked, answered>>
    /\ crisisAlerts = <<AlertRow(1, 1, CrisisText), AlertRow(1, 1, CrisisText)>>
    /\ resources = <<>>
    /\ auth \in {[c \in Clients |-> IF c = "c1" THEN u ELSE 2] : u \in {Anonymous, 1}}
    /\ InitIdle
    /\ environ = Unset

AlertNext ==
    \/ Tick
    \/ \E c \in Clients :
        \/ AdminActionPost(c)
        \/ AdminAction(c)
        \/ DashboardGet(c)
        \/ DashboardView(c)

AlertSpec == AlertInit /\ [][AlertNext]_vars

(***************************************************************************)
(* Database errors.  A statement may fail with OperationalError (SQLite's  *)
(* "database is locked", a full disk); the statements a request has        *)
(* already run were committed one by one.                                  *)
(***************************************************************************)
\* A statement of send_message_api raises; `except Exception` answers 500.
SendWriteFails(c) ==
    /\ pc[c] \in SendLabels
    /\ faults < MaxFaults
    /\ faults' = faults + 1
    /\ Finish(c, Caught("OperationalError"))
    /\ UNCHANGED <<environ, clock, users, userProfiles, userStreaks, moodEntries,
                   chatSessions, chatMessages, crisisAlerts, resources, auth, req>>

\* A statement of register_view raises; nothing catches it.
RegisterWriteFails(c) ==
    /\ pc[c] \in RegisterLabels
    /\ faults < MaxFaults
    /\ faults' = faults + 1
    /\ Finish(c, ServerError("OperationalError"))
    /\ UNCHANGED <<environ, clock, users, userProfiles, userStreaks, moodEntries,
                   chatSessions, chatMessages, crisisAlerts, resources, auth, req>>

(***************************************************************************)
(* Registration, login and the chat of one worker, with database errors.   *)
(***************************************************************************)
FaultNext ==
    \E c \in {"c1"} :
        \/ RegisterPost(c)
        \/ RegisterValidate(c)
        \/ RegisterSaveUser(c)
        \/ RegisterCreateProfile(c)
        \/ RegisterCreateStreak(c)
        \/ RegisterLogin(c)
        \/ RegisterWriteFails(c)
        \/ LoginPost(c)
        \/ LoginAuthenticate(c)
        \/ LoginLogin(c)
        \/ LoginSaveUser(c)
        \/ ChatNewGet(c)
        \/ ChatSessionCreate(c)
        \/ ChatWelcomeCreate(c)
        \/ SendMessagePost(c)
        \/ SendLookup(c)
        \/ SendCreateUserMsg(c)
        \/ SendFlagUserMsg(c)
        \/ SendSaveSessionCrisis(c)
        \/ SendCreateAlert(c)
        \/ SendCreateBotMsg(c)
        \/ SendSaveSessionTotal(c)
        \/ SendWriteFails(c)

FaultSpec == AuthInit /\ [][FaultNext]_vars

(***************************************************************************)
(* Claims about mood tracking, checked under MoodSpec.                     *)
(***************************************************************************)
MoodCount(user, date) ==
    LET rows == {r \in BagToSet(moodEntries) : r.user = user /\ r.entry_date = date}
    IN  BagCardinality([r \in rows |-> CopiesIn(r, moodEntries)])

\* The number of consecutive days ending at `date` with a MoodEntry of `user`.
RECURSIVE RunLength(_, _)
RunLength(user, date) ==
    IF date >= 1 /\ HasMoodEntry(user, date)
    THEN 1 + RunLength(user, date - 1)
    ELSE 0

Quiescent(user) == \A c \in Clients : auth[c] = user => pc[c] = "idle"

\* C3: a mood POST whose mood_score is outside 1..10 ends in its first step
\* without the success redirect, writes no MoodEntry and leaves every
\* UserStreak as it is; an authenticated requester gets the form back with
\* its errors.
C3_OutOfRangeRejected ==
    [][\A c \in Clients :
        (pc[c] = "mood_form" /\ pc'[c] # "mood_form"
            /\ ~(req[c].mood_score \in 1..10))
        => /\ moodEntries' = moodEntries
           /\ userStreaks' = userStreaks
           /\ pc'[c] = "idle"
           /\ resp'[c] # Redirect("mood_tracker")
           /\ (auth[c] # Anonymous => resp'[c] = Render("mood/tracker.html", TRUE))]_vars

C3_Witness ==
    \E c \in Clients :
        /\ pc[c] = "idle" /\ auth[c] # Anonymous
        /\ req[c].view = "mood_tracker" /\ req[c].mood_score = 11
        /\ resp[c] = Render("mood/tracker.html", TRUE)
        /\ ~HasMoodEntry(auth[c], clock)

\* C5 (as claimed): the streak.save() of a mood entry made on date d leaves
\* last_mood_entry = d, and current_mood_streak one more than stored if the
\* stored last_mood_entry was d - 1, and 1 otherwise.
C5_StreakStepOnEntryDate ==
    [][\A c \in Clients :
        (pc[c] = "mood_points" /\ pc'[c] = "idle")
        => LET d == loc[c].entry_date
               old == userStreaks[loc[c].streak.id]
               new == userStreaks'[loc[c].streak.id]
           IN  /\ new.last_mood_entry = d
               /\ new.current_mood_streak =
                      IF old.last_mood_entry = d - 1
                      THEN old.current_mood_streak + 1 ELSE 1]_vars

\* C6 (as claimed): with no mood request of the user in flight, the user's
\* current_mood_streak is the number of consecutive days ending at
\* last_mood_entry on which the user has a MoodEntry.
C6_StreakCountsConsecutiveDays ==
    \A i \in DOMAIN userStreaks :
        LET s == userStreaks[i]
        IN  (Quiescent(s.user) /\ s.last_mood_entry # None)
            => s.current_mood_streak = RunLength(s.user, s.last_mood_entry)

\* C7: no user has two MoodEntry rows for one entry_date, whatever the
\* interleaving of the requests.
C7_OneEntryPerUserAndDate ==
    \A user \in DOMAIN users, date \in 1..MaxDay : MoodCount(user, date) <= 1

\* Two requests of one user on one day: one has inserted its entry and is
\* still in flight, the other was refused by the database.
C7_Witness ==
    \E c1 \in Clients, c2 \in Clients :
        /\ c1 # c2 /\ auth[c1] = auth[c2] /\ auth[c1] # Anonymous
        /\ pc[c1] = "mood_streak" /\ loc[c1].entry_date = clock
        /\ pc[c2] = "idle" /\ resp[c2] = ServerError("IntegrityError")
        /\ MoodCount(auth[c1], clock) = 1

\* C8: a valid mood POST of a user who already has a MoodEntry for the
\* current date ends in an error response in the step of its INSERT: that
\* step writes no MoodEntry and no UserStreak, and the request does nothing
\* after it.
C8_SecondEntryChangesNothing ==
    [][\A c \in Clients :
        (pc[c] = "mood_form" /\ pc'[c] # "mood_form" /\ auth[c] # Anonymous
            /\ req[c].mood_score \in 1..10 /\ req[c].other_valid
            /\ HasMoodEntry(auth[c], clock))
        => /\ moodEntries' = moodEntries
           /\ userStreaks' = userStreaks
           /\ pc'[c] = "idle"
           /\ resp'[c].status = 500]_vars

\* The user's first entry of the day was completed (streak 1, 10 points), and
\* a second valid submission the same day got the error.
C8_Witness ==
    \E c \in Clients :
        /\ pc[c] = "idle" /\ auth[c] # Anonymous
        /\ req[c].view = "mood_tracker" /\ req[c].mood_score = 1
        /\ resp[c].status = 500
        /\ Quiescent(auth[c])
        /\ StreakRowsOf(auth[c]) # {}
        /\ StreakOf(auth[c]).last_mood_entry = clock
        /\ StreakOf(auth[c]).current_mood_streak = 1
        /\ StreakOf(auth[c]).total_points = 10
        /\ MoodCount(auth[c], clock) = 1

(***************************************************************************)
(* Claims about the chat, checked under ChatSpec.                          *)
(***************************************************************************)
\* Of the request bodies tried, those whose trimmed text holds one of the
\* five keywords, whatever the case, and those whose text holds none.
TextsWithKeyword ==
    { <<" ", "I", " ", "f", "e", "e", "l", " ", "H", "O", "P", "E", "L", "E", "S", "S">> }

TextsWithoutKeyword ==
    { <<"h", "o", "p", "e", " ", "l", "e", "s", "s", " ">> }

Trimmed(text) ==
    IF text = <<" ", "I", " ", "f", "e", "e", "l", " ", "H", "O", "P", "E", "L", "E", "S", "S">>
    THEN <<"I", " ", "f", "e", "e", "l", " ", "H", "O", "P", "E", "L", "E", "S", "S">>
    ELSE IF text = <<"h", "o", "p", "e", " ", "l", "e", "s", "s", " ">>
    THEN <<"h", "o", "p", "e", " ", "l", "e", "s", "s">>
    ELSE <<>>

OwnSend(c) ==
    /\ req[c].view = "send_message" /\ ~req[c].malformed
    /\ auth[c] # Anonymous
    /\ SessionVisible(req[c].session_id, auth[c])

\* C1: a send_message_api request on the requester's own session whose text
\* holds a crisis keyword is accepted, and when it completes it has created
\* exactly one CrisisAlert, of its user and session, 'detected' and 'high';
\* its user message is stored trimmed with both crisis flags set, and the
\* session has crisis_detected = True and crisis_severity = 8.
C1_CrisisMessageCreatesAlert ==
    [][\A c \in Clients :
        /\ (pc[c] = "send_start" /\ pc'[c] # "send_start" /\ OwnSend(c)
                /\ req[c].message \in TextsWithKeyword)
           => pc'[c] = "send_user_msg"
        /\ (pc[c] = "send_total" /\ pc'[c] = "idle"
                /\ req[c].message \in TextsWithKeyword)
           => /\ resp'[c].status = 200
              /\ Len(loc[c].alerts) = 1
              /\ loc[c].alerts[1] \in DOMAIN crisisAlerts'
              /\ LET alert == crisisAlerts'[loc[c].alerts[1]]
                     message == chatMessages'[loc[c].user_msg]
                     session == chatSessions'[req[c].session_id]
                 IN  /\ alert.user = auth[c]
                     /\ alert.chat_session = req[c].session_id
                     /\ alert.status = "detected"
                     /\ alert.severity = "high"
                     /\ message.sender = "user"
                     /\ message.session = req[c].session_id
                     /\ message.message_text = Trimmed(req[c].message)
                     /\ message.contains_crisis_keywords
                     /\ message.requires_intervention
                     /\ session.crisis_detected
                     /\ session.crisis_severity = 8]_vars

C1_Witness ==
    \E c \in Clients :
        /\ pc[c] = "idle" /\ resp[c].status = 200
        /\ req[c].view = "send_message" /\ req[c].message \in TextsWithKeyword
        /\ Len(crisisAlerts) = 1
        /\ crisisAlerts[1].user = auth[c]
        /\ chatSessions[req[c].session_id].crisis_detected

\* C2 (as claimed): a send_message_api request whose text holds no crisis
\* keyword creates no CrisisAlert, stores its user message with both crisis
\* flags unset, and none of its steps changes the session's crisis_detected
\* or crisis_severity.
C2_PlainMessageLeavesCrisisState ==
    [][\A c \in Clients :
        (pc[c] \in SendLabels /\ pc'[c] # pc[c]
            /\ req[c].message \in TextsWithoutKeyword)
        => /\ crisisAlerts' = crisisAlerts
           /\ LET sid == req[c].session_id
              IN  /\ chatSessions'[sid].crisis_detected = chatSessions[sid].crisis_detected
                  /\ chatSessions'[sid].crisis_severity = chatSessions[sid].crisis_severity
           /\ pc'[c] = "idle" =>
                 /\ ~chatMessages'[loc[c].user_msg].contains_crisis_keywords
                 /\ ~chatMessages'[loc[c].user_msg].requires_intervention]_vars

(***************************************************************************)
(* Claims about accounts, checked under AuthSpec.                          *)
(***************************************************************************)
RegistersTakenEmail(c) ==
    /\ pc[c] = "reg_form" /\ pc'[c] # "reg_form"
    /\ \E i \in DOMAIN users : users[i].email = req[c].email

NothingRegistered ==
    /\ users' = users
    /\ userProfiles' = userProfiles
    /\ userStreaks' = userStreaks

\* C4 (as claimed): a register POST whose email is that of an existing User
\* ends at once: no User, UserProfile or UserStreak is created, the requester
\* is not logged in, and the form is rendered again with its errors.
C4_DuplicateEmailRejected ==
    [][\A c \in Clients :
        RegistersTakenEmail(c)
        => /\ NothingRegistered
           /\ pc'[c] = "idle"
           /\ auth'[c] = Anonymous
           /\ resp'[c] = Render("auth/register.html", TRUE)]_vars

\* C4 (amended): the same for a requester who is not authenticated; an
\* authenticated requester is redirected to the dashboard, stays logged in
\* as before, and nothing is created either.
C4_DuplicateEmailRejectedForAnonymous ==
    [][\A c \in Clients :
        RegistersTakenEmail(c)
        => /\ NothingRegistered
           /\ pc'[c] = "idle"
           /\ auth'[c] = auth[c]
           /\ resp'[c] = IF auth[c] = Anonymous
                         THEN Render("auth/register.html", TRUE)
                         ELSE Redirect("dashboard")]_vars

\* An anonymous requester registered a new username with ann's email and
\* had the form back.
C4_Witness ==
    \E c \in Clients :
        /\ pc[c] = "idle" /\ auth[c] = Anonymous
        /\ req[c].view = "register"
        /\ req[c].username = "cat" /\ req[c].email = "ann@x"
        /\ req[c].password = req[c].confirm_password
        /\ resp[c] = Render("auth/register.html", TRUE)
        /\ ~UsernameTaken("cat")

(***************************************************************************)
(* Claims about failing requests, checked under FaultSpec.                 *)
(***************************************************************************)
SendFailsAfterUserMessage(c) ==
    /\ pc[c] \in SendLabels /\ pc'[c] = "idle" /\ resp'[c].status = 500
    /\ loc[c].user_msg # 0

RegisterFailsAfterUserSave(c) ==
    /\ pc[c] \in RegisterLabels /\ pc'[c] = "idle" /\ resp'[c].status = 500
    /\ loc[c].user # 0

\* C10: the writes of one request are all or nothing: when send_message_api fails after it created the user
\* ChatMessage, that row and the request's CrisisAlert are gone with the
\* error; when register_view fails after user.save(), the User is gone.
C10_RequestsAreAtomic ==
    [][\A c \in Clients :
        /\ SendFailsAfterUserMessage(c)
           => /\ \A i \in DOMAIN chatMessages' : i < loc[c].user_msg
              /\ \A a \in Range(loc[c].alerts) : a \notin DOMAIN crisisAlerts'
        /\ RegisterFailsAfterUserSave(c)
           => loc[c].user \notin DOMAIN users']_vars

\* A registration failed between user.save() and the UserProfile, and a send
\* failed after its crisis text was stored and flagged and the alert raised:
\* the User without UserProfile and the unanswered message are in the tables.
C10_Witness ==
    /\ faults = 2
    /\ \E u \in DOMAIN users : \A i \in DOMAIN userProfiles : userProfiles[i].user # u
    /\ resp["c1"] = Caught("OperationalError")
    /\ Len(chatMessages) = 2
    /\ chatMessages[2].sender = "user"
    /\ chatMessages[2].contains_crisis_keywords
    /\ Len(crisisAlerts) = 1
    /\ chatSessions[1].total_messages = 0

(***************************************************************************)
(* Claims about lookups, checked under LookupSpec.                         *)
(***************************************************************************)
\* The first step of a view that looks up a session or a resource, taken by
\* an authenticated requester for whom the id matches no visible record.
LookupFails(c) ==
    /\ auth[c] # Anonymous
    /\ \/ /\ pc[c] \in {"chat_open", "send_start", "end_start"}
          /\ ~SessionVisible(req[c].session_id, auth[c])
       \/ /\ pc[c] = "resource_start"
          /\ ~ResourceVisible(req[c].resource_id)
    /\ pc'[c] # pc[c]

\* C9: chat_session_view, send_message_api, end_chat_session and
\* resource_detail_view answer 404 when the id matches no record visible to
\* the requester.
C9_LookupFailureIsNotFound ==
    [][\A c \in Clients : LookupFails(c) => resp'[c].status = 404]_vars

\* A send to a session id that matches nothing has been answered.
C9_Witness ==
    \E c \in Clients :
        /\ pc[c] = "idle"
        /\ req[c].view = "send_message"
        /\ auth[c] # Anonymous
        /\ ~SessionVisible(req[c].session_id, auth[c])
        /\ resp[c].status # 0

(***************************************************************************)
(* Claims about rejected submissions.                                      *)
(***************************************************************************)
\* C11: every rejected form submission is answered by the re-rendered page
\* with a form error, never by a server error: a mood_tracker_view POST that
\* adds no MoodEntry (score out of range, or an entry for the date exists),
\* and a register_view POST of an anonymous requester that goes no further
\* than validation (duplicate email, mismatched passwords).
C11_RejectionsAreFormErrors ==
    [][\A c \in Clients :
        /\ (pc[c] = "mood_form" /\ pc'[c] = "idle" /\ auth[c] # Anonymous)
           => resp'[c] = Render("mood/tracker.html", TRUE)
        /\ (pc[c] = "reg_form" /\ pc'[c] = "idle" /\ auth[c] = Anonymous)
           => resp'[c] = Render("auth/register.html", TRUE)]_vars

\* A valid mood submission for a date that has an entry has been answered.
C11_Witness ==
    \E c \in Clients :
        /\ pc[c] = "idle"
        /\ req[c].view = "mood_tracker"
        /\ MoodEntryForm_is_valid(req[c])
        /\ resp[c].status = 500
        /\ HasMoodEntry(auth[c], clock)

\* C12: no two User rows have the same email.
C12_EmailsAreUnique ==
    \A i, j \in DOMAIN users : i # j => users[i].email # users[j].email

\* Two registrations with one email and different usernames have both
\* created their User and UserProfile.
C12_Witness ==
    \E i, j \in DOMAIN users :
        /\ i # j
        /\ users[i].email = users[j].email
        /\ users[i].username # users[j].username
        /\ \E p, q \in DOMAIN userProfiles :
              userProfiles[p].user = i /\ userProfiles[q].user = j

(***************************************************************************)
(* Claims about UserProfile and UserStreak, checked under AccountSpec.     *)
(***************************************************************************)
\* The users register_view created: those added to the two of the start.
RegisteredUsers == {u \in DOMAIN users : u > Len(TwoUsers)}

\* C13: each User created by register_view has exactly one UserProfile and
\* exactly one UserStreak, and no user has more than one of either.
C13_OneProfileAndOneStreakPerUser ==
    /\ \A u \in DOMAIN users :
          /\ Cardinality(ProfileRowsOf(u)) <= 1
          /\ Cardinality(StreakRowsOf(u)) <= 1
    /\ \A u \in RegisteredUsers :
          /\ Cardinality(ProfileRowsOf(u)) = 1
          /\ Cardinality(StreakRowsOf(u)) = 1

\* While a registration was between user.save() and
\* UserProfile.objects.create, its user logged in through another worker and
\* asked for the profile page.
C13_Witness ==
    \E c \in Clients :
        /\ auth[c] \in RegisteredUsers
        /\ pc[c] = "idle"
        /\ req[c].view = "profile"
        /\ resp[c] = ServerError("RelatedObjectDoesNotExist")

(***************************************************************************)
(* Claims about the messages of a session, checked under LookupSpec.       *)
(***************************************************************************)
SessionMessages(session_id) ==
    SelectSeq(chatMessages, LAMBDA m : m.session = session_id)

\* C14: a send_message_api request that succeeds has added exactly two
\* ChatMessage rows to its session, the user's with the trimmed text and
\* then the bot's with the scripted reply, and its JSON names these two;
\* between requests that run one after the other, the messages of every
\* session read: the bot's welcome, then user and bot in strict alternation.
C14_TwoMessagesPerSend ==
    /\ [][\A c \in Clients :
            (pc[c] = "send_total" /\ pc'[c] = "idle")
            => LET user_msg == loc[c].user_msg
                   bot_msg == loc[c].bot_msg
               IN  /\ resp'[c] = Json(200, "success", <<user_msg, bot_msg>>)
                   /\ bot_msg = user_msg + 1
                   /\ Len(chatMessages') = bot_msg
                   /\ chatMessages'[user_msg].session = req[c].session_id
                   /\ chatMessages'[user_msg].sender = "user"
                   /\ chatMessages'[user_msg].message_text = Trimmed(req[c].message)
                   /\ chatMessages'[bot_msg] =
                          MessageRow(req[c].session_id, "bot",
                                     generate_ai_response(Trimmed(req[c].message),
                                                          req[c].message \in TextsWithKeyword))
                   /\ Trimmed(req[c].message) # <<>>]_vars
    /\ [](\A sid \in DOMAIN chatSessions :
            (\A c \in Clients : pc[c] = "idle")
            => LET msgs == SessionMessages(sid)
               IN  /\ Len(msgs) >= 1
                   /\ Len(msgs) % 2 = 1
                   /\ msgs[1].message_text = WelcomeText
                   /\ \A i \in DOMAIN msgs :
                         msgs[i].sender = IF i % 2 = 0 THEN "user" ELSE "bot")

\* Two sends, one plain and one with a keyword, have been answered on a
\* session: it holds five messages.
C14_Witness ==
    /\ \A c \in Clients : pc[c] = "idle"
    /\ \E sid \in DOMAIN chatSessions :
          /\ Len(SessionMessages(sid)) = 5
          /\ \E i, j \in DOMAIN chatMessages :
                /\ chatMessages[i].sender = "user"
                /\ chatMessages[i].contains_crisis_keywords
                /\ chatMessages[j].sender = "user"
                /\ ~chatMessages[j].contains_crisis_keywords

(***************************************************************************)
(* Claims about points, checked under PointsSpec.                          *)
(***************************************************************************)
\* C15: each successful mood submission increases the user's total_points
\* by exactly POINTS_PER_MOOD_ENTRY, and nothing else changes total_points.
C15_PointsAreTheConfiguredValue ==
    [][\A i \in DOMAIN userStreaks :
        LET before == userStreaks[i].total_points
            after == userStreaks'[i].total_points
        IN  /\ (\E c \in Clients :
                   /\ pc[c] = "mood_points" /\ pc'[c] = "idle"
                   /\ loc[c].streak.id = i)
               => after = before + POINTS_PER_MOOD_ENTRY
            /\ after # before
               => \E c \in Clients :
                     /\ pc[c] = "mood_points" /\ pc'[c] = "idle"
                     /\ loc[c].streak.id = i]_vars

\* A mood entry has been logged in a process started with
\* POINTS_PER_MOOD_ENTRY=20.
C15_Witness ==
    /\ environ = <<"2", "0">>
    /\ \E c \in Clients :
          /\ pc[c] = "idle"
          /\ req[c].view = "mood_tracker"
          /\ resp[c] = Redirect("mood_tracker")
          /\ StreakOf(auth[c]).total_points = 10

(***************************************************************************)
(* Claims about the longest streak, checked under MoodSpec.                *)
(***************************************************************************)
\* C19: after every successful mood entry the user's longest_mood_streak is
\* at least the current_mood_streak.
C19_LongestAtLeastCurrent ==
    [][\A c \in Clients :
        (pc[c] = "mood_points" /\ pc'[c] = "idle")
        => LET new == userStreaks'[loc[c].streak.id]
           IN  new.longest_mood_streak >= new.current_mood_streak]_vars

\* The first mood entry of a user whose UserStreak had the default values
\* has been logged.
C19_Witness ==
    \E c \in Clients :
        /\ pc[c] = "idle"
        /\ resp[c] = Redirect("mood_tracker")
        /\ Quiescent(auth[c])
        /\ MoodCount(auth[c], clock) = 1
        /\ StreakOf(auth[c]).current_mood_streak = 1
        /\ StreakOf(auth[c]).longest_mood_streak = 0
        /\ StreakOf(auth[c]).total_points = 10

(***************************************************************************)
(* Claims about a session's crisis state and status.                       *)
(***************************************************************************)
AlertsOf(session_id) ==
    {a \in DOMAIN crisisAlerts : crisisAlerts[a].chat_session = session_id}

CrisisMessagesOf(session_id) ==
    {m \in DOMAIN chatMessages :
         /\ chatMessages[m].session = session_id
         /\ chatMessages[m].sender = "user"
         /\ chatMessages[m].contains_crisis_keywords}

AllIdle == \A c \in Clients : pc[c] = "idle"

\* C16: with no request in progress, every session has as many CrisisAlert
\* rows as it has user messages with contains_crisis_keywords = True, and
\* each of these alerts is its owner's.
C16_OneAlertPerCrisisMessage ==
    AllIdle
    => \A sid \in DOMAIN chatSessions :
          /\ Cardinality(AlertsOf(sid)) = Cardinality(CrisisMessagesOf(sid))
          /\ \A a \in AlertsOf(sid) : crisisAlerts[a].user = chatSessions[sid].user

\* A send with a keyword failed after user_msg.save() had stored the flags
\* and before CrisisAlert.objects.create.
C16_Witness ==
    /\ AllIdle
    /\ resp["c1"] = Caught("OperationalError")
    /\ \E sid \in DOMAIN chatSessions :
          /\ Cardinality(CrisisMessagesOf(sid)) = 1
          /\ AlertsOf(sid) = {}

\* C17: no step of a chat view resets a session's crisis_detected from True
\* to False, and with no request in progress a session that has a
\* CrisisAlert has crisis_detected = True and crisis_severity = 8.
C17_CrisisDetectedIsNeverReset ==
    /\ [][\A sid \in DOMAIN chatSessions :
            chatSessions[sid].crisis_detected => chatSessions'[sid].crisis_detected]_vars
    /\ [](AllIdle
            => \A sid \in DOMAIN chatSessions :
                  AlertsOf(sid) # {}
                  => /\ chatSessions[sid].crisis_detected
                     /\ chatSessions[sid].crisis_severity = 8)

\* All requests are over, a session has its CrisisAlert, and is no longer
\* marked.
C17_Witness ==
    /\ AllIdle
    /\ \E sid \in DOMAIN chatSessions :
          /\ AlertsOf(sid) # {}
          /\ ~chatSessions[sid].crisis_detected
          /\ chatSessions[sid].crisis_severity = None

\* C18: once end_chat_session has ended a session, its status stays 'ended'
\* and its ended_at stays set.
C18_EndedStaysEnded ==
    [][\A sid \in DOMAIN chatSessions :
        chatSessions[sid].status = "ended"
        => /\ chatSessions'[sid].status = "ended"
           /\ chatSessions'[sid].ended_at # None]_vars

\* An end request and a send on the same session are both answered with
\* success, and the session is active.
C18_Witness ==
    /\ AllIdle
    /\ \E c, d \in Clients :
          /\ req[c].view = "end_chat" /\ resp[c] = Redirect("chat_home")
          /\ req[d].view = "send_message" /\ resp[d].status = 200
          /\ req[c].session_id = req[d].session_id
          /\ chatSessions[req[c].session_id].status = "active"
          /\ chatSessions[req[c].session_id].ended_at = None

(***************************************************************************)
(* Claims about other users' sessions, checked under ChatSpec.             *)
(***************************************************************************)
\* The first step of chat_session_view, send_message_api or
\* end_chat_session for a session that exists and is not the requester's,
\* or by a requester who is not authenticated.
ForeignSessionRequest(c) ==
    /\ pc[c] \in {"chat_open", "send_start", "end_start"}
    /\ pc'[c] # pc[c]
    /\ \/ auth[c] = Anonymous
       \/ /\ req[c].session_id \in DOMAIN chatSessions
          /\ chatSessions[req[c].session_id].user # auth[c]

\* C20: such a request ends in that step without the view's success
\* response, creates no ChatMessage and no CrisisAlert, and leaves every
\* session as it is.
C20_ForeignSessionsAreUntouched ==
    [][\A c \in Clients :
        ForeignSessionRequest(c)
        => /\ pc'[c] = "idle"
           /\ resp'[c].status # 200
           /\ chatMessages' = chatMessages
           /\ crisisAlerts' = crisisAlerts
           /\ chatSessions' = chatSessions]_vars

\* A user has sent a message with a keyword to the session of another user
\* and has been answered.
C20_Witness ==
    \E c \in Clients :
        /\ pc[c] = "idle"
        /\ auth[c] # Anonymous
        /\ req[c].view = "send_message"
        /\ req[c].message \in TextsWithKeyword
        /\ req[c].session_id \in DOMAIN chatSessions
        /\ chatSessions[req[c].session_id].user # auth[c]
        /\ resp[c] = Caught("Http404")
        /\ crisisAlerts = <<>>

(***************************************************************************)
(* Claims about total_messages, checked under ChatSpec.                    *)
(***************************************************************************)
\* C21: with no request in progress, every session's total_messages is the
\* number of its ChatMessage rows minus the welcome message, twice the
\* number of its user messages.
C21_TotalMessagesCountsTheMessages ==
    AllIdle
    => \A sid \in DOMAIN chatSessions :
          /\ chatSessions[sid].total_messages = Len(SessionMessages(sid)) - 1
          /\ chatSessions[sid].total_messages =
                 2 * Cardinality({m \in UserMessages : chatMessages[m].session = sid})

\* Two sends on one session have both been answered with success, the
\* session holds their four messages after the welcome, and counts two.
C21_Witness ==
    /\ AllIdle
    /\ \A c \in Clients : req[c].view = "send_message" /\ resp[c].status = 200
    /\ \E sid \in DOMAIN chatSessions :
          /\ Len(SessionMessages(sid)) = 5
          /\ chatSessions[sid].total_messages = 2

(***************************************************************************)
(* Claims about sends to an ended session, checked under LookupSpec.       *)
(***************************************************************************)
\* A step of send_message_api by the owner on a session stored as 'ended'.
SendOnEndedSession(c) ==
    /\ pc[c] \in {"send_start"} \cup SendLabels
    /\ pc'[c] # pc[c]
    /\ req[c].view = "send_message" /\ ~req[c].malformed
    /\ req[c].session_id \in DOMAIN chatSessions
    /\ chatSessions[req[c].session_id].user = auth[c]
    /\ chatSessions[req[c].session_id].status = "ended"

\* C22: a message of the owner to an ended session is processed as on an
\* active one: a non-blank text is accepted, a keyword raises the alert and
\* marks the session, the request ends with success, its two messages
\* stored and total_messages two higher; all the while the session's status
\* stays 'ended' and its ended_at keeps its value.
C22_SendIgnoresSessionStatus ==
    [][\A c \in Clients :
        SendOnEndedSession(c)
        => LET sid == req[c].session_id
               before == chatSessions[sid]
               after == chatSessions'[sid]
           IN  /\ after.status = "ended"
               /\ after.ended_at = before.ended_at
               /\ before.ended_at # None
               /\ (pc[c] = "send_start" /\ Trimmed(req[c].message) # <<>>)
                  => pc'[c] = "send_user_msg"
               /\ pc[c] = "send_total"
                  => /\ resp'[c] = Json(200, "success", <<loc[c].user_msg, loc[c].bot_msg>>)
                     /\ after.total_messages = before.total_messages + 2
                     /\ chatMessages'[loc[c].user_msg].sender = "user"
                     /\ chatMessages'[loc[c].user_msg].session = sid
                     /\ chatMessages'[loc[c].bot_msg].sender = "bot"
                     /\ chatMessages'[loc[c].bot_msg].session = sid
                     /\ req[c].message \in TextsWithKeyword
                        => /\ Len(loc[c].alerts) = 1
                           /\ crisisAlerts'[loc[c].alerts[1]].chat_session = sid
                           /\ chatMessages'[loc[c].user_msg].contains_crisis_keywords
                           /\ after.crisis_detected
                           /\ after.crisis_severity = 8
                     /\ req[c].message \in TextsWithoutKeyword
                        => /\ loc[c].alerts = <<>>
                           /\ ~chatMessages'[loc[c].user_msg].contains_crisis_keywords]_vars

\* A send with a keyword that found its session ended has stored its two
\* messages and the alert, and is about to save the session.
C22_Witness ==
    \E c \in Clients :
        /\ pc[c] = "send_total"
        /\ loc[c].session.status = "ended"
        /\ chatSessions[req[c].session_id].status = "ended"
        /\ chatSessions[req[c].session_id].crisis_detected
        /\ Len(loc[c].alerts) = 1
        /\ loc[c].bot_msg = Len(chatMessages)

(***************************************************************************)
(* Claims about the reply script, checked under ReplySpec.                 *)
(***************************************************************************)
\* The replies in the order of their rules.
RuleReplies ==
    << <<"I'm really concerned">>, <<"I hear that you're feeling anxious">>,
       <<"Thank you for sharing">>, <<"It sounds like you're dealing with a lot of stress">>,
       <<"I'm so glad I could help">>, <<"I appreciate you sharing that">> >>

\* The earliest rule among those of the words of a phrase.
FirstRule(phrase) ==
    CHOOSE r \in 1..6 :
        /\ \E i \in DOMAIN phrase : ReplyWords[phrase[i]].rule = r
        /\ \A i \in DOMAIN phrase : ReplyWords[phrase[i]].rule >= r

\* The reply the rules give a text made of the words tried.
ExpectedReply(text) ==
    RuleReplies[FirstRule(CHOOSE phrase \in Phrases : Join(phrase) = text)]

\* C23: the reply to a text is the reply of the earliest rule that any of
\* its words meets, whatever the order and the case of the words.
C23_ReplyIsFirstMatchingRule ==
    \A c \in Clients :
        (pc[c] = "idle" /\ req[c].view = "reply")
        => resp[c].data = ExpectedReply(req[c].message)

\* 'goodbye Anxious', closing word first, has been answered with the
\* anxiety reply.
C23_Witness ==
    \E c \in Clients :
        /\ pc[c] = "idle"
        /\ req[c].message = Join(<<14, 4>>)
        /\ resp[c].data = RuleReplies[2]

(***************************************************************************)
(* Claims about blank messages, checked under ChatSpec.                    *)
(***************************************************************************)
\* Of the request bodies tried, those with no text: whitespace only, and an
\* empty or missing 'message'.
BlankTexts == { <<" ", "\t">>, <<>> }

\* The first step of a well-formed send_message_api request of the owner
\* with a blank message.
BlankSend(c) ==
    /\ pc[c] = "send_start" /\ pc'[c] # "send_start"
    /\ req[c].view = "send_message" /\ ~req[c].malformed
    /\ req[c].message \in BlankTexts
    /\ req[c].session_id \in DOMAIN chatSessions
    /\ chatSessions[req[c].session_id].user = auth[c]

C25_SuspendedUserIsNotLoggedIn ==
    [][/\ \A c \in Clients :
            (pc[c] = "login_login" /\ pc'[c] # "login_login")
            => ~users[loc[c].user].account_suspended
       /\ \A u \in DOMAIN users :
            users[u].account_suspended
            => users'[u].last_active = users[u].last_active]_vars

\* ann has been suspended after authenticate loaded her User and before
\* login(request, user): she is logged in, suspended, and user.save() is
\* still to come.
C25_Witness ==
    \E c \in Clients :
        /\ pc[c] = "login_save"
        /\ auth[c] = loc[c].user
        /\ users[auth[c]].account_suspended
        /\ ~users[auth[c]].is_active
        /\ ~loc[c].user_row.account_suspended

(***************************************************************************)
(* Claims about the admin's alert actions, checked under AlertSpec.        *)
(***************************************************************************)
AdminRuns(c, action) ==
    /\ pc[c] = "admin_action" /\ pc'[c] = "idle"
    /\ req[c].action = action
    /\ AdminHasPermission(c)

\* C26: mark_as_acknowledged turns every selected alert, a resolved one
\* included, to 'acknowledged' with acknowledged_at = now and resolved_at as
\* it was; mark_as_resolved turns every selected alert, a never acknowledged
\* one included, to 'resolved' with resolved_at = now and acknowledged_at as
\* it was; dashboard_view reports active_crisis exactly when the user has an
\* alert whose status is 'detected' or 'acknowledged'; and in every state
\* status 'acknowledged' comes with acknowledged_at set and status
\* 'resolved' with resolved_at set.
C26_AlertActionsIgnoreStatus ==
    /\ [][\A c \in Clients : \A i \in DOMAIN crisisAlerts :
            (AdminRuns(c, "mark_as_acknowledged") /\ i \in req[c].selected)
            => /\ crisisAlerts'[i].status = "acknowledged"
               /\ crisisAlerts'[i].acknowledged_at = clock
               /\ crisisAlerts'[i].resolved_at = crisisAlerts[i].resolved_at
               /\ crisisAlerts[i].status = "resolved"
                  => /\ crisisAlerts'[i].resolved_at # None
                     /\ ActiveCrisis(crisisAlerts[i].user)']_vars
    /\ [][\A c \in Clients : \A i \in DOMAIN crisisAlerts :
            (AdminRuns(c, "mark_as_resolved") /\ i \in req[c].selected)
            => /\ crisisAlerts'[i].status = "resolved"
               /\ crisisAlerts'[i].resolved_at = clock
               /\ crisisAlerts'[i].acknowledged_at = crisisAlerts[i].acknowledged_at]_vars
    /\ [][\A c \in Clients :
            (pc[c] = "dashboard" /\ pc'[c] = "idle" /\ auth[c] # Anonymous)
            => resp'[c].data =
                 <<\E i \in DOMAIN crisisAlerts :
                      /\ crisisAlerts[i].user = auth[c]
                      /\ crisisAlerts[i].status # "resolved">>]_vars
    /\ [](\A i \in DOMAIN crisisAlerts :
            /\ crisisAlerts[i].status \in {"detected", "acknowledged", "resolved"}
            /\ crisisAlerts[i].status = "detected"
               <=> (crisisAlerts[i].acknowledged_at = None
                    /\ crisisAlerts[i].resolved_at = None)
            /\ crisisAlerts[i].status = "acknowledged"
               => crisisAlerts[i].acknowledged_at # None
            /\ crisisAlerts[i].status = "resolved"
               => crisisAlerts[i].resolved_at # None)

\* Both of ann's alerts were resolved without having been acknowledged, one
\* of them has since been marked acknowledged, and her dashboard reports an
\* active crisis.
C26_Witness ==
    /\ crisisAlerts[1].status = "acknowledged"
    /\ crisisAlerts[1].resolved_at # None
    /\ crisisAlerts[1].acknowledged_at > crisisAlerts[1].resolved_at
    /\ crisisAlerts[2].status = "resolved"
    /\ crisisAlerts[2].acknowledged_at = None
    /\ pc["c1"] = "idle" /\ req["c1"].view = "dashboard"
    /\ resp["c1"].data = <<TRUE>>
    /\ pc["c2"] = "idle" /\ req["c2"].action = "mark_as_acknowledged"

====
